---- MODULE Spec2Model ----
(***************************************************************************)
(* Verification-record reconciliation (VerificationProcessor).             *)
(*                                                                         *)
(* processRecords folds the raw records of one owner into one              *)
(* CredentialStatus per credential type.  The model runs the reduce of     *)
(* processRecords one callback invocation at a time over an input drawn    *)
(* from a bounded universe of records, and also gives processRecords as    *)
(* an operator built from the same callback, so that relations between     *)
(* several calls (permuted input, duplicated input) can be stated.         *)
(*                                                                         *)
(* JavaScript values are modelled as follows.                              *)
(*   - a string field that is undefined or '' is the string "" (both are   *)
(*     falsy, and the code only tests truthiness);                         *)
(*   - record.credential is a record with a flag `present`;               *)
(*   - credential.type is a record with a flag `isArray` and its items;    *)
(*   - a Date | null is a record: kind "null", or kind "date" with a flag  *)
(*     `nan` (Invalid Date) and its time value in epoch seconds.           *)
(***************************************************************************)
EXTENDS Integers, Sequences, FiniteSets, TLC

VARIABLES records, pos, byType, result, pc, earlier, view,
          call, step, storeCalls, outcome, query,
          watcher, timers, remote, local, verify, mirror

\* One call of processRecords.
reducerVars == <<records, pos, byType, result, pc>>

\* The caller: the maps earlier calls returned, and what the accessors gave.
callVars == <<earlier, view>>

\* The repository store boundary: the operation under way and its position,
\* the calls made to the store, the promise the operation returned, and the
\* state of the records query.
storeVars == <<call, step, storeCalls, outcome, query>>

\* A usePolling instance in its component: the component and the inputs of
\* its last commit, the interval timers, the polled status query with the
\* verifier behind it, and the component's local copy of the status.
pollVars == <<watcher, timers, remote, local>>

\* The user interface around the reduction: the watchers, the Verify screen
\* and the local mirror of proof requests.
uiVars == <<pollVars, verify, mirror>>

vars == <<reducerVars, callVars, storeVars, uiVars>>

\* Longest input sequence handed to processRecords.
MaxLen == 3

VerificationTypes == {"age", "account"}

-----------------------------------------------------------------------------
(* Timestamp strings and new Date(string).                                 *)

\* Timestamp strings that occur in the inputs.  The first two denote the
\* same instant: the second is the form Date.prototype.toISOString writes,
\* with milliseconds.
OlderNoMillis == "2024-01-10T08:00:00Z"
OlderWithMillis == "2024-01-10T08:00:00.000Z"
Middle == "2024-01-15T10:30:00Z"
Newer == "2024-01-20T14:00:00Z"
Expiry == "2025-01-20T00:00:00Z"
InvalidDateString == "invalid-date"
InvalidExpiryString == "invalid-expiry"

\* What the clock reads when a record is issued, in the form toISOString
\* writes; the same reading with the year advanced by one; and the end of
\* the day 2026-01-15.
NowIso == "2024-01-20T14:00:00.000Z"
OneYearLaterIso == "2025-01-20T14:00:00.000Z"
EndOfDayIso == "2026-01-15T23:59:59.999Z"

\* Date.parse on the strings above, in epoch seconds; any other string is
\* unparseable.
ParseTable ==
    (OlderNoMillis :> 1704873600) @@ (OlderWithMillis :> 1704873600) @@
    (Middle :> 1705314600) @@ (Newer :> 1705759200) @@ (Expiry :> 1737331200) @@
    (NowIso :> 1705759200) @@ (OneYearLaterIso :> 1737381600) @@
    (EndOfDayIso :> 1768521599)

Null == [kind |-> "null", nan |-> FALSE, time |-> 0]

InvalidDate == [kind |-> "date", nan |-> TRUE, time |-> 0]

NewDateNullOnFailure(s) ==
    IF s \in DOMAIN ParseTable
    THEN [kind |-> "date", nan |-> FALSE, time |-> ParseTable[s]]
    ELSE Null

\* new Date(s): a Date object in every case, Invalid Date when s does not parse.
NewDate(s) ==
    IF s \in DOMAIN ParseTable
    THEN [kind |-> "date", nan |-> FALSE, time |-> ParseTable[s]]
    ELSE InvalidDate

\* Truthiness of a string: undefined and '' are falsy.
Truthy(s) == s # ""

\* Truthiness of a Date | null: every object is truthy, Invalid Date included.
TruthyDate(d) == d.kind = "date"

\* a > b on two Date objects: compares the time values; false when either is NaN.
DateGreater(a, b) == ~a.nan /\ ~b.nan /\ a.time > b.time

-----------------------------------------------------------------------------
(* Records.                                                                *)

AgeTypes == <<"VerifiableCredential", "AnonCred", "AgeVerification">>
AccountTypes == <<"VerifiableCredential", "AnonCred", "AccountVerification">>
BothTypes == <<"AccountVerification", "AgeVerification">>
OtherTypes == <<"VerifiableCredential", "AnonCred">>

ArrayOf(items) == [isArray |-> TRUE, items |-> items]
NotAnArray == [isArray |-> FALSE, items |-> <<>>]

Credential(hash, type, expirationDate) ==
    [present |-> TRUE, hash |-> hash, type |-> type,
     expirationDate |-> expirationDate]

NoCredential ==
    [present |-> FALSE, hash |-> "", type |-> NotAnArray, expirationDate |-> ""]

Record(rkey, createdAt, credential) ==
    [rkey |-> rkey, createdAt |-> createdAt, credential |-> credential]

\* Well-formed age records: every timestamp, with and without an expiration date.
AgeRecords ==
    {Record("age1", InvalidDateString, Credential("sha256:abc", ArrayOf(AgeTypes), "")),
     Record("age1", OlderNoMillis, Credential("sha256:abc", ArrayOf(AgeTypes), "")),
     Record("age2", OlderNoMillis, Credential("sha256:abc", ArrayOf(AgeTypes), Expiry)),
     Record("age1", OlderWithMillis, Credential("sha256:abc", ArrayOf(AgeTypes), "")),
     Record("age3", Middle, Credential("sha256:abc", ArrayOf(AgeTypes), "")),
     Record("age1", Newer, Credential("sha256:abc", ArrayOf(AgeTypes), Expiry)),
     Record("age2", Newer,
            Credential("sha256:abc", ArrayOf(AgeTypes), InvalidExpiryString)),
     Record("age1", Newer, Credential("sha256:abc", ArrayOf(BothTypes), ""))}

\* Well-formed account records.
AccountRecords ==
    {Record("account1", InvalidDateString,
            Credential("sha256:def", ArrayOf(AccountTypes), Expiry)),
     Record("account1", OlderNoMillis,
            Credential("sha256:def", ArrayOf(AccountTypes), Expiry)),
     Record("account2", Middle,
            Credential("sha256:def", ArrayOf(AccountTypes), Expiry)),
     Record("account1", Newer, Credential("sha256:def", ArrayOf(AccountTypes), ""))}

\* Malformed records: each lacks one thing, and carries the latest timestamp.
MalformedRecords ==
    {Record("", Newer, Credential("sha256:abc", ArrayOf(AgeTypes), Expiry)),
     Record("age1", Newer, Credential("", ArrayOf(AgeTypes), Expiry)),
     Record("age1", "", Credential("sha256:abc", ArrayOf(AgeTypes), Expiry)),
     Record("age1", Newer, NoCredential),
     Record("age1", Newer, Credential("sha256:abc", NotAnArray, Expiry)),
     Record("age1", Newer, Credential("sha256:abc", ArrayOf(OtherTypes), Expiry))}

RecordUniverse == AgeRecords \cup AccountRecords \cup MalformedRecords

Inputs == UNION {[1..n -> RecordUniverse] : n \in 0..MaxLen}

-----------------------------------------------------------------------------
(* VerificationProcessor.                                                  *)

\* record.credential?.hash, ?.type, ?.expirationDate: undefined when the
\* credential is missing.
CredentialHash(record) ==
    IF record.credential.present THEN record.credential.hash ELSE ""

CredentialType(record) ==
    IF record.credential.present THEN record.credential.type ELSE NotAnArray

CredentialExpirationDate(record) ==
    IF record.credential.present THEN record.credential.expirationDate ELSE ""

Includes(items, tag) == \E i \in 1..Len(items) : items[i] = tag

isValidRecordNoRkey(record) ==
    Truthy(CredentialHash(record)) /\ Truthy(record.createdAt)

isValidRecordNoHash(record) ==
    Truthy(record.rkey) /\ Truthy(record.createdAt)

\* A validity that also asks the subject to be the owner the records are
\* listed for.
isValidRecordOwnSubject(record) ==
    /\ Truthy(record.rkey)
    /\ Truthy(CredentialHash(record))
    /\ Truthy(record.createdAt)
    /\ record.subject = "did:plc:alice123"

\* A validity that also asks for the storage envelope's cid.
isValidRecordNeedsCid(record) ==
    /\ Truthy(record.rkey)
    /\ Truthy(CredentialHash(record))
    /\ Truthy(record.createdAt)
    /\ Truthy(record.cid)

isValidRecord(record) ==
    /\ Truthy(record.rkey)
    /\ Truthy(CredentialHash(record))
    /\ Truthy(record.createdAt)

\* The two branches of lines 37-41 in the other order.
extractCredentialTypeAccountFirst(record) ==
    LET type == CredentialType(record) IN
    IF ~type.isArray THEN "null"
    ELSE IF Includes(type.items, "AccountVerification") THEN "account"
    ELSE IF Includes(type.items, "AgeVerification") THEN "age"
    ELSE "null"

\* "null" stands for the null return value.
extractCredentialType(record) ==
    LET type == CredentialType(record) IN
    IF ~type.isArray THEN "null"
    ELSE IF Includes(type.items, "AgeVerification") THEN "age"
    ELSE IF Includes(type.items, "AccountVerification") THEN "account"
    ELSE "null"

\* The callback dereferences credential.type (line 37) and record.credential
\* (line 52) without optional chaining; each throws a TypeError when the
\* object it reads from is undefined at that point.
CallbackThrows(record) ==
    \/ /\ CredentialType(record).isArray
       /\ ~record.credential.present
    \/ /\ extractCredentialType(record) # "null"
       /\ isValidRecord(record)
       /\ Truthy(CredentialExpirationDate(record))
       /\ ~record.credential.present

NullRecord == Record("", "", NoCredential)

createStatusFromRecordNoExpiration(record) ==
    [verified |-> TRUE,
     verifiedAt |-> IF Truthy(record.createdAt) THEN NewDate(record.createdAt) ELSE Null,
     expirationDate |-> Null,
     record |-> record]

createStatusFromRecordNullDates(record) ==
    [verified |-> TRUE,
     verifiedAt |-> IF Truthy(record.createdAt)
                    THEN NewDateNullOnFailure(record.createdAt) ELSE Null,
     expirationDate |-> IF Truthy(CredentialExpirationDate(record))
                        THEN NewDateNullOnFailure(record.credential.expirationDate)
                        ELSE Null,
     record |-> record]

createStatusFromRecord(record) ==
    [verified |-> TRUE,
     verifiedAt |-> IF Truthy(record.createdAt) THEN NewDate(record.createdAt) ELSE Null,
     expirationDate |-> IF Truthy(CredentialExpirationDate(record))
                        THEN NewDate(record.credential.expirationDate)
                        ELSE Null,
     record |-> record]

createEmptyStatus ==
    [verified |-> FALSE, verifiedAt |-> Null, expirationDate |-> Null,
     record |-> NullRecord]

\* The accumulator of the reduce: a partial map from credential type to status.
EmptyAccumulator == [t \in {} |-> createEmptyStatus]

\* Replaces the winner on every valid record: the last one wins.
ShouldReplaceAlways(status, acc, credentialType) == TRUE

\* The comparison of line 95 turned around: the older record wins.
ShouldReplaceOlder(status, acc, credentialType) ==
    \/ credentialType \notin DOMAIN acc
    \/ /\ TruthyDate(status.verifiedAt)
       /\ \/ ~TruthyDate(acc[credentialType].verifiedAt)
          \/ DateGreater(acc[credentialType].verifiedAt, status.verifiedAt)

\* The winner is kept only when it is later than the candidate:
\* !(existing.verifiedAt > status.verifiedAt).
ShouldReplaceUnlessLater(status, acc, credentialType) ==
    \/ credentialType \notin DOMAIN acc
    \/ ~DateGreater(acc[credentialType].verifiedAt, status.verifiedAt)

\* The condition of lines 92-96, `existing` being acc[credentialType].
ShouldReplace(status, acc, credentialType) ==
    \/ credentialType \notin DOMAIN acc
    \/ /\ TruthyDate(status.verifiedAt)
       /\ \/ ~TruthyDate(acc[credentialType].verifiedAt)
          \/ DateGreater(status.verifiedAt, acc[credentialType].verifiedAt)

\* One invocation of the reduce callback (lines 81-101), when it does not throw.
ReduceCallback(acc, record) ==
    LET credentialType == extractCredentialType(record) IN
    IF credentialType = "null" \/ ~isValidRecord(record) THEN acc
    ELSE LET status == createStatusFromRecord(record) IN
         IF ShouldReplace(status, acc, credentialType)
         THEN [t \in DOMAIN acc \cup {credentialType} |->
                  IF t = credentialType THEN status ELSE acc[t]]
         ELSE acc

ReturnMapNoFallback(acc) ==
    [t \in DOMAIN acc |-> acc[t]]

\* The returned object (lines 106-109).
ReturnMap(acc) ==
    [age |-> IF "age" \in DOMAIN acc THEN acc["age"] ELSE createEmptyStatus,
     account |-> IF "account" \in DOMAIN acc THEN acc["account"] ELSE createEmptyStatus]

\* reduce without an initial value: the first element is taken as the
\* accumulator and the callback starts at the second.
FirstIndexNoInitialValue == 1 + 1

\* records.reduce(callback, {}) starts the callback at the first element.
FirstIndex == 1

RECURSIVE ReduceFrom(_, _, _)
ReduceFrom(rs, i, acc) ==
    IF i > Len(rs) THEN acc ELSE ReduceFrom(rs, i + 1, ReduceCallback(acc, rs[i]))

processRecords(rs) == ReturnMap(ReduceFrom(rs, FirstIndex, EmptyAccumulator))

\* The account category is pushed before the age category.
getVerificationStatsAccountFirst(status) ==
    LET verifiedTypes ==
            (IF status["account"].verified THEN <<"account">> ELSE <<>>) \o
            (IF status["age"].verified THEN <<"age">> ELSE <<>>) IN
    [hasAnyVerification |-> Len(verifiedTypes) > 0,
     verificationCount |-> Len(verifiedTypes),
     verifiedTypes |-> verifiedTypes]

\* getVerificationStats (lines 115-130).
getVerificationStats(status) ==
    LET verifiedTypes ==
            (IF status["age"].verified THEN <<"age">> ELSE <<>>) \o
            (IF status["account"].verified THEN <<"account">> ELSE <<>>) IN
    [hasAnyVerification |-> Len(verifiedTypes) > 0,
     verificationCount |-> Len(verifiedTypes),
     verifiedTypes |-> verifiedTypes]

\* isCredentialVerified (lines 135-140).
isCredentialVerified(status, type) == status[type].verified

\* Math.min in the place of Math.max.
RECURSIVE MathMinDates(_)
MathMinDates(dates) ==
    IF Len(dates) = 1 THEN dates[1]
    ELSE LET rest == MathMinDates(Tail(dates)) IN
         IF dates[1].nan \/ rest.nan THEN InvalidDate
         ELSE IF dates[1].time <= rest.time THEN dates[1] ELSE rest

\* Math.max over the time values of Date objects: NaN when one of them is NaN.
RECURSIVE MathMaxDates(_)
MathMaxDates(dates) ==
    IF Len(dates) = 1 THEN dates[1]
    ELSE LET rest == MathMaxDates(Tail(dates)) IN
         IF dates[1].nan \/ rest.nan THEN InvalidDate
         ELSE IF dates[1].time >= rest.time THEN dates[1] ELSE rest

\* getMostRecentVerificationDate (lines 145-153).
getMostRecentVerificationDate(status) ==
    LET dates == SelectSeq(<<status["age"].verifiedAt, status["account"].verifiedAt>>,
                           TruthyDate) IN
    IF Len(dates) = 0 THEN Null ELSE MathMaxDates(dates)

\* An in-place reversal of the caller's array.
RecordsReversedInPlace(rs) == [i \in 1..Len(rs) |-> rs[Len(rs) + 1 - i]]

\* The caller's array after a call: Array.prototype.reduce does not modify
\* the array, and the callback assigns to acc only (line 97).
RecordsAfterCall(rs) == rs

-----------------------------------------------------------------------------
(* One call of processRecords, one callback invocation per step.           *)

\* Calls of processRecords one caller makes on its records array.
MaxCalls == 2

NoView == <<>>

\* No earlier call, no accessor read.
FirstCall == earlier = <<>> /\ view = NoView

NoResult == [t \in {} |-> createEmptyStatus]

NoCall == [name |-> "none"]

Pending == [state |-> "pending"]

\* useQuery before its queryFn has settled: data undefined.
QueryPending == [status |-> "pending", data |-> <<>>, failureCount |-> 0]

NoWatcher == [kind |-> "none"]

NoTimers == [live |-> {}, ref |-> 0, started |-> 0]

NoRemote == [state |-> "", data |-> "", inflight |-> FALSE, polls |-> 0]

NoVerify == [step |-> "none"]

NoMirror == [stored |-> <<>>]

\* No component is mounted.
NoUi ==
    /\ watcher = NoWatcher
    /\ timers = NoTimers
    /\ remote = NoRemote
    /\ local = ""
    /\ verify = NoVerify
    /\ mirror = NoMirror

\* processRecords called directly: no store operation under way.
NoStoreOperation ==
    /\ call = NoCall
    /\ step = "idle"
    /\ storeCalls = <<>>
    /\ outcome = Pending
    /\ query = QueryPending

Init ==
    /\ records \in Inputs
    /\ pos = FirstIndex
    /\ byType = EmptyAccumulator
    /\ result = NoResult
    /\ pc = "reduce"
    /\ FirstCall
    /\ NoStoreOperation
    /\ NoUi

ReduceStep ==
    /\ pc = "reduce"
    /\ pos <= Len(records)
    /\ IF CallbackThrows(records[pos])
       THEN /\ pc' = "threw"
            /\ UNCHANGED <<pos, byType>>
       ELSE /\ byType' = ReduceCallback(byType, records[pos])
            /\ pos' = pos + 1
            /\ pc' = pc
    /\ UNCHANGED <<records, result, callVars, storeVars, uiVars>>

Return ==
    /\ pc = "reduce"
    /\ pos > Len(records)
    /\ result' = ReturnMap(byType)
    /\ pc' = "done"
    /\ records' = RecordsAfterCall(records)
    /\ UNCHANGED <<pos, byType, callVars, storeVars, uiVars>>

Next == ReduceStep \/ Return

Spec == Init /\ [][Next]_vars

\* The caller reads the returned map through the accessors (useMemo of
\* stats and mostRecentVerificationDate).
Access ==
    /\ pc = "done"
    /\ view = NoView
    /\ view' = <<[stats |-> getVerificationStats(result),
                  isAgeVerified |-> isCredentialVerified(result, "age"),
                  isAccountVerified |-> isCredentialVerified(result, "account"),
                  mostRecentVerificationDate |->
                      getMostRecentVerificationDate(result)]>>
    /\ UNCHANGED <<reducerVars, earlier, storeVars, uiVars>>

\* Another reader calls processRecords on the same records array: a new
\* reduce over a new accumulator (line 102).
CallAgain ==
    /\ pc = "done"
    /\ Len(earlier) + 1 < MaxCalls
    /\ earlier' = Append(earlier, result)
    /\ pos' = FirstIndex
    /\ byType' = EmptyAccumulator
    /\ result' = NoResult
    /\ pc' = "reduce"
    /\ view' = NoView
    /\ UNCHANGED <<records, storeVars, uiVars>>

NextCalls == ReduceStep \/ Return \/ Access \/ CallAgain

-----------------------------------------------------------------------------
(* The vocabulary of the properties, stated on the records themselves.     *)

Done == pc = "done"

Idx == 1..Len(records)

\* The timestamp string denotes an instant.
Parseable(s) == s \in DOMAIN ParseTable

\* The instant a parseable timestamp string denotes.
Instant(s) == ParseTable[s]

HasRkey(r) == r.rkey # ""

HasHash(r) == r.credential.present /\ r.credential.hash # ""

HasCreatedAt(r) == r.createdAt # ""

HasTag(r, tag) ==
    /\ r.credential.present
    /\ r.credential.type.isArray
    /\ \E i \in 1..Len(r.credential.type.items) : r.credential.type.items[i] = tag

\* The category of a record: age before account, none without a sentinel.
Category(r) ==
    IF HasTag(r, "AgeVerification") THEN "age"
    ELSE IF HasTag(r, "AccountVerification") THEN "account"
    ELSE "none"

Valid(r) == HasRkey(r) /\ HasHash(r) /\ HasCreatedAt(r)

\* The positions of the valid records of category c in the input.
ValidAt(c) == {i \in Idx : Valid(records[i]) /\ Category(records[i]) = c}

CanonicalEmptyStatus ==
    [verified |-> FALSE, verifiedAt |-> Null, expirationDate |-> Null,
     record |-> Record("", "", NoCredential)]

\* The status that projects the single record r.
ProjectionOf(r) ==
    [verified |-> TRUE,
     verifiedAt |-> NewDate(r.createdAt),
     expirationDate |-> IF r.credential.expirationDate = "" THEN Null
                        ELSE NewDate(r.credential.expirationDate),
     record |-> r]

Permuted(rs, p) == [i \in 1..Len(rs) |-> rs[p[i]]]

-----------------------------------------------------------------------------
(* Properties.                                                             *)

\* C1. Max-by-recency: when the input holds two valid records A and B of one
\* category with parseable createdAt, A later than B, in any order and among
\* any other records, the record selected for that category is not B.
MaxByRecency ==
    Done =>
        \A c \in VerificationTypes : \A a \in ValidAt(c) : \A b \in ValidAt(c) :
            ( /\ Parseable(records[a].createdAt)
              /\ Parseable(records[b].createdAt)
              /\ Instant(records[a].createdAt) > Instant(records[b].createdAt) )
            => result[c].record # records[b]

\* The later record precedes the earlier one, among a third record.
MaxByRecencyWitness ==
    /\ Done
    /\ Len(records) = 3
    /\ \E a \in ValidAt("age") : \E b \in ValidAt("age") :
          /\ a < b
          /\ Parseable(records[a].createdAt)
          /\ Parseable(records[b].createdAt)
          /\ Instant(records[a].createdAt) > Instant(records[b].createdAt)
          /\ result["age"].record = records[a]

\* C2. Most recent valid record: for every category that has a valid record
\* with a parseable createdAt, the selected record is a valid record of that
\* category whose createdAt is the latest among them, whatever valid records
\* (those with an unparseable createdAt included) precede it.
SelectsMostRecentValid ==
    Done =>
        \A c \in VerificationTypes :
            (\E i \in ValidAt(c) : Parseable(records[i].createdAt)) =>
                \E w \in ValidAt(c) :
                    /\ result[c].record = records[w]
                    /\ Parseable(records[w].createdAt)
                    /\ \A i \in ValidAt(c) :
                          Parseable(records[i].createdAt) =>
                              Instant(records[w].createdAt) >=
                                  Instant(records[i].createdAt)

\* C3. Exclusion of invalid records: a record without rkey, without
\* credential.hash, or without a category sentinel is never the selected
\* record of a category, and the result is the one the input gives with these
\* records removed.
Defective(r) == ~HasRkey(r) \/ ~HasHash(r) \/ Category(r) = "none"

NotDefective(r) == ~Defective(r)

Totality ==
    Done =>
        /\ DOMAIN result = VerificationTypes
        /\ \A c \in DOMAIN result :
              DOMAIN result[c] = {"verified", "verifiedAt", "expirationDate", "record"}

\* The input is not empty and made only of malformed records.
TotalityWitness ==
    /\ Done
    /\ Len(records) = 2
    /\ \A i \in Idx : records[i] \in MalformedRecords
    /\ DOMAIN result = VerificationTypes

NoneLater(c, s) ==
    \A k \in ValidAt(c) :
        Parseable(records[k].createdAt) =>
            Instant(records[k].createdAt) <= Instant(s)

FirstAt(c, s) ==
    CHOOSE i \in ValidAt(c) :
        /\ Parseable(records[i].createdAt)
        /\ Instant(records[i].createdAt) = Instant(s)
        /\ \A j \in ValidAt(c) :
              ( /\ Parseable(records[j].createdAt)
                /\ Instant(records[j].createdAt) = Instant(s) ) => i <= j

TieBreakFirstSeen ==
    Done =>
        \A c \in VerificationTypes : \A i \in ValidAt(c) : \A j \in ValidAt(c) :
            ( /\ i < j
              /\ Parseable(records[i].createdAt)
              /\ Parseable(records[j].createdAt)
              /\ Instant(records[i].createdAt) = Instant(records[j].createdAt)
              /\ NoneLater(c, records[i].createdAt) )
            => result[c].record = records[FirstAt(c, records[i].createdAt)]

\* C8. Order-insensitivity as stated: when all createdAt strings of the
\* input are well-formed and pairwise distinct, every permutation of the
\* input gives the same result.
AllWellFormed == \A i \in Idx : Parseable(records[i].createdAt)

OrderInsensitiveDistinctStrings ==
    ( /\ Done
      /\ AllWellFormed
      /\ \A i \in Idx : \A j \in Idx :
            i # j => records[i].createdAt # records[j].createdAt )
    => \A p \in Permutations(Idx) : processRecords(Permuted(records, p)) = result

\* C8, amended. When all createdAt strings are well-formed and denote
\* pairwise distinct instants, every permutation of the input gives the same
\* result.
DistinctInstants ==
    \A i \in Idx : \A j \in Idx :
        i # j => Instant(records[i].createdAt) # Instant(records[j].createdAt)

OrderInsensitiveDistinctInstants ==
    (Done /\ AllWellFormed /\ DistinctInstants)
    => \A p \in Permutations(Idx) : processRecords(Permuted(records, p)) = result

\* Three valid age records at three distinct instants, the latest in the
\* middle of the input.
OrderInsensitiveWitness ==
    /\ Done
    /\ AllWellFormed
    /\ DistinctInstants
    /\ Len(records) = 3
    /\ ValidAt("age") = {1, 2, 3}
    /\ Instant(records[2].createdAt) > Instant(records[3].createdAt)
    /\ Instant(records[3].createdAt) > Instant(records[1].createdAt)
    /\ result["age"].record = records[2]

\* C9. Idempotence: the run of processRecords over the input and its
\* evaluation on the same input agree, and the result on the input followed
\* by itself equals the result on the input.
IdempotentOnDuplicates ==
    Done =>
        /\ processRecords(records) = result
        /\ processRecords(records \o records) = result

\* An input of two valid records of one category, the earlier one last.
IdempotentOnDuplicatesWitness ==
    /\ Done
    /\ Len(records) = 2
    /\ ValidAt("age") = {1, 2}
    /\ Parseable(records[1].createdAt)
    /\ Parseable(records[2].createdAt)
    /\ Instant(records[1].createdAt) > Instant(records[2].createdAt)
    /\ result["age"].record = records[1]

\* C10. Parse errors neither throw nor unverify: a valid record with an
\* unparseable createdAt or expirationDate gives a status with verified = true
\* and a non-null invalid date in that field, and when it is the only valid
\* record of its category the category is reported verified with that record.
IsInvalidDate(d) == d.kind = "date" /\ d.nan

UnparseableDatesStayVerified ==
    /\ pc # "threw"
    /\ \A c \in VerificationTypes : \A i \in ValidAt(c) :
          LET r == records[i]
              status == createStatusFromRecord(r) IN
          /\ status.verified
          /\ ~Parseable(r.createdAt) => IsInvalidDate(status.verifiedAt)
          /\ (r.credential.expirationDate # ""
                /\ ~Parseable(r.credential.expirationDate))
             => IsInvalidDate(status.expirationDate)
          /\ ( /\ Done
               /\ ~Parseable(r.createdAt)
               /\ \A j \in ValidAt(c) : records[j] = r )
             => /\ result[c].verified
                /\ result[c].record = r
                /\ IsInvalidDate(result[c].verifiedAt)

\* The only valid age record has an unparseable createdAt; age is verified.
UnparseableDatesStayVerifiedWitness ==
    /\ Done
    /\ ValidAt("age") # {}
    /\ \A i \in ValidAt("age") : ~Parseable(records[i].createdAt)
    /\ result["age"].verified
    /\ IsInvalidDate(result["age"].verifiedAt)

-----------------------------------------------------------------------------
(* Records with all their fields.                                          *)
(*                                                                         *)
(* The reduction reads rkey, createdAt and credential.hash, .type and      *)
(* .expirationDate only.  The records below also carry the other fields    *)
(* of VerificationRecord and CredentialData, in several variants, so that  *)
(* what these fields do to the outcome can be observed.                    *)

\* Longest input of full records.
MaxFullLen == 2

Owner == "did:plc:alice123"

BothTypesAgeFirst == <<"AgeVerification", "AccountVerification">>

\* The records the full records are built from.
CoreRecords ==
    {Record("age1", OlderNoMillis, Credential("sha256:abc", ArrayOf(AgeTypes), "")),
     Record("age2", Newer, Credential("sha256:abc", ArrayOf(AgeTypes), Expiry)),
     Record("age1", InvalidDateString, Credential("sha256:abc", ArrayOf(AgeTypes), "")),
     Record("account2", Middle, Credential("sha256:def", ArrayOf(AccountTypes), Expiry)),
     Record("age1", Newer, Credential("sha256:abc", ArrayOf(BothTypes), "")),
     Record("age1", Newer, Credential("sha256:abc", ArrayOf(BothTypesAgeFirst), "")),
     Record("", Newer, Credential("sha256:abc", ArrayOf(AgeTypes), Expiry)),
     Record("age1", Newer, Credential("", ArrayOf(AgeTypes), Expiry)),
     Record("age1", "", Credential("sha256:abc", ArrayOf(AgeTypes), Expiry)),
     Record("age1", Newer, NoCredential),
     Record("age1", Newer, Credential("sha256:abc", NotAnArray, Expiry))}

\* The fields the reduction does not read, as one group of values.
StandardFields ==
    [handle |-> "alice.bsky.social", displayName |-> "Alice Johnson",
     subject |-> Owner, assertion |-> "I assert that I am over 21 years of age",
     credentialUri |-> "https://verifier.example.com/proof/age123",
     purpose |-> <<"ProofOfMajorityAge">>, otherHash |-> FALSE,
     uri |-> "at://did:plc:alice123/app.bsky.graph.verification/age1",
     cid |-> "bafyreiabc123"]

\* The subject is not the owner the records are listed for.
ForeignSubjectFields == [StandardFields EXCEPT !.subject = "did:plc:mallory"]

\* Other display metadata, proof pointer and purposes, another hash value.
OtherDisplayFields ==
    [StandardFields EXCEPT
        !.handle = "", !.displayName = "", !.assertion = "",
        !.credentialUri = "", !.purpose = <<>>, !.otherHash = TRUE]

\* No storage envelope: uri and cid undefined.
NoEnvelopeFields == [StandardFields EXCEPT !.uri = "", !.cid = ""]

FieldVariants ==
    {StandardFields, ForeignSubjectFields, OtherDisplayFields, NoEnvelopeFields}

\* The record r with the fields f added; the hash value changes, never its
\* presence.
FullRecord(r, f) ==
    [rkey |-> r.rkey, createdAt |-> r.createdAt,
     handle |-> f.handle, displayName |-> f.displayName, subject |-> f.subject,
     assertion |-> f.assertion, uri |-> f.uri, cid |-> f.cid,
     credential |->
        [present |-> r.credential.present,
         hash |-> IF f.otherHash /\ r.credential.hash # ""
                  THEN "sha256:other" ELSE r.credential.hash,
         type |-> r.credential.type,
         expirationDate |-> r.credential.expirationDate,
         uri |-> IF r.credential.present THEN f.credentialUri ELSE "",
         purpose |-> IF r.credential.present THEN f.purpose ELSE <<>>]]

FullRecordUniverse == {FullRecord(r, f) : r \in CoreRecords, f \in FieldVariants}

FullInputs == UNION {[1..n -> FullRecordUniverse] : n \in 0..MaxFullLen}

InitFull ==
    /\ records \in FullInputs
    /\ pos = FirstIndex
    /\ byType = EmptyAccumulator
    /\ result = NoResult
    /\ pc = "reduce"
    /\ FirstCall
    /\ NoStoreOperation
    /\ NoUi

\* processRecords over records that carry all their fields.
SpecFull == InitFull /\ [][Next]_vars

\* Several readers of one array of full records.
SpecCalls == InitFull /\ [][NextCalls]_vars

\* The record with the fields the reduction does not read set to the
\* standard values.
Standardized(r) ==
    [r EXCEPT !.handle = StandardFields.handle,
              !.displayName = StandardFields.displayName,
              !.subject = StandardFields.subject,
              !.assertion = StandardFields.assertion,
              !.uri = StandardFields.uri,
              !.cid = StandardFields.cid,
              !.credential.hash = IF @ = "" THEN "" ELSE "sha256:abc",
              !.credential.uri = IF r.credential.present
                                 THEN StandardFields.credentialUri ELSE "",
              !.credential.purpose = IF r.credential.present
                                     THEN StandardFields.purpose ELSE <<>>]

\* C11. isValidRecord(r) is true exactly when r.rkey, r.credential.hash and
\* r.createdAt are all present and non-empty; records that agree on these
\* three get the same answer whatever their other fields and whether or not
\* createdAt parses.
SameRequiredFields(r1, r2) ==
    /\ HasRkey(r1) <=> HasRkey(r2)
    /\ HasHash(r1) <=> HasHash(r2)
    /\ HasCreatedAt(r1) <=> HasCreatedAt(r2)

WithTags(r, items) == [r EXCEPT !.credential.type.items = items]

ClassifierByFirstMatch ==
    \A i \in Idx :
        LET r == records[i]
            items == r.credential.type.items IN
        /\ extractCredentialType(r) =
              IF HasTag(r, "AgeVerification") THEN "age"
              ELSE IF HasTag(r, "AccountVerification") THEN "account"
              ELSE "null"
        /\ \A p \in Permutations(1..Len(items)) :
              extractCredentialType(WithTags(r, Permuted(items, p))) =
                  extractCredentialType(r)

\* The input holds a record with both sentinels in each order, and the
\* reduction has counted both as age.
ClassifierByFirstMatchWitness ==
    /\ Done
    /\ Len(records) = 2
    /\ records[1].credential.type.items = BothTypes
    /\ records[2].credential.type.items = BothTypesAgeFirst
    /\ result["age"].verified
    /\ ~result["account"].verified

\* C13. The reconciliation core never mutates what it reads: no step of
\* processRecords or of the accessors changes the records array or a record
\* in it, a map once returned is not changed by the accessors or by a later
\* call, and every call on the shared array returns the same map.
InputNeverMutated ==
    /\ [][ /\ records' = records
           /\ (pc = "done" /\ pc' = "done") => result' = result
           /\ \A k \in 1..Len(earlier) : earlier'[k] = earlier[k] ]_vars
    /\ [](Done => \A k \in 1..Len(earlier) : earlier[k] = result)

\* A second call on an array of two different records has returned, and the
\* accessors have read its map.
InputNeverMutatedWitness ==
    /\ Done
    /\ Len(earlier) = 1
    /\ view # NoView
    /\ Len(records) = 2
    /\ records[1] # records[2]
    /\ result["age"].verified

\* C14. Fields that bear no trust do not influence the status: the input
\* and the same input with handle, displayName, subject, assertion,
\* credential.uri, credential.purpose and the value of a present
\* credential.hash set to standard values (so any two inputs that differ in
\* these only) give the same verified flags, verifiedAt and expirationDate,
\* and winners at the same positions; a record with a foreign subject counts.
StandardizedInput == [i \in Idx |-> Standardized(records[i])]

UntrustedFieldsIgnored ==
    Done =>
        LET standard == processRecords(StandardizedInput) IN
        \A c \in VerificationTypes :
            /\ result[c].verified = standard[c].verified
            /\ result[c].verifiedAt = standard[c].verifiedAt
            /\ result[c].expirationDate = standard[c].expirationDate
            /\ result[c].verified =>
                  \E i \in Idx : /\ records[i] = result[c].record
                                 /\ StandardizedInput[i] = standard[c].record

\* A record with a foreign subject displaces a valid age record of the owner.
UntrustedFieldsIgnoredWitness ==
    /\ Done
    /\ Len(records) = 2
    /\ records[1].subject = Owner
    /\ records[2].subject # Owner
    /\ result["age"].record = records[2]
    /\ records[1] \in {FullRecord(r, StandardFields) : r \in CoreRecords}
    /\ Category(records[1]) = "age"
    /\ Valid(records[1])


-----------------------------------------------------------------------------
(* The repository store boundary (verification-record.ts): the records of  *)
(* a user are listed, read and written through an agent whose answers the  *)
(* application does not control.                                           *)
(*                                                                         *)
(* A URI is a sequence of tokens in which "/" is the separator character   *)
(* and every other token stands for a run of characters without "/"; the   *)
(* empty sequence is undefined (or '').                                    *)

\* Longest list of entries the store answers a listing with.
MaxEntries == 2

Collection == "app.bsky.graph.verification"

\* Another identity than the owner's.
OtherDid == "did:plc:bob123"

\* Record keys the store assigns.
StoreRkeys == {"abc123", "def456"}

AtUri(repo, rkey) == <<"at:", "/", "/", repo, "/", Collection, "/", rkey>>

TruthyUri(uri) == uri # <<>>

\* String.prototype.split('/') from position i on: cur is the segment being
\* read, segs the segments already closed.
RECURSIVE SplitFrom(_, _, _, _)
SplitFrom(uri, i, cur, segs) ==
    IF i > Len(uri) THEN Append(segs, cur)
    ELSE IF uri[i] = "/" THEN SplitFrom(uri, i + 1, <<>>, Append(segs, cur))
    ELSE SplitFrom(uri, i + 1, Append(cur, uri[i]), segs)

Split(uri) == SplitFrom(uri, 1, <<>>, <<>>)

\* The segment as a string: '' when nothing stands between two separators.
SegmentString(seg) == IF seg = <<>> THEN "" ELSE seg[1]

\* Array.prototype.pop on the segments: the last one.
Pop(segs) == SegmentString(segs[Len(segs)])

NoCommit == [cid |-> "", rev |-> ""]

\* A credential block as it is written and stored.
StoreCredential(uri, hash, type, purpose, expirationDate, screenName) ==
    [present |-> TRUE, uri |-> uri, hash |-> hash, type |-> type,
     purpose |-> purpose, expirationDate |-> expirationDate,
     screenName |-> screenName]

NoStoreCredential ==
    [present |-> FALSE, uri |-> <<>>, hash |-> "", type |-> NotAnArray,
     purpose |-> <<>>, expirationDate |-> "", screenName |-> ""]

\* An object none of whose fields is defined ({...undefined}).
NoValue ==
    [handle |-> "", displayName |-> "", subject |-> "", assertion |-> "",
     createdAt |-> "", credential |-> NoStoreCredential,
     uri |-> <<>>, cid |-> "", rkey |-> "", commit |-> NoCommit]


-----------------------------------------------------------------------------
(* createVerificationRecord up to its call of the store.                   *)

AgeAssertion == "I assert that I am over 21 years of age"

AccountAssertion == "I assert that this is my verified account"

AgePurposes == <<"ProofOfMajorityAge">>

AccountPurposes == <<"AccountOwnership">>

\* getVerificationConfig throws for any other type.
SupportedType(type) == type \in VerificationTypes

\* The two configurations in each other's place.
getVerificationConfigSwapped(type) ==
    IF type = "account"
    THEN [assertion |-> AgeAssertion, types |-> AgeTypes, purposes |-> AgePurposes]
    ELSE [assertion |-> AccountAssertion, types |-> AccountTypes,
          purposes |-> AccountPurposes]

getVerificationConfig(type) ==
    IF type = "age"
    THEN [assertion |-> AgeAssertion, types |-> AgeTypes, purposes |-> AgePurposes]
    ELSE [assertion |-> AccountAssertion, types |-> AccountTypes,
          purposes |-> AccountPurposes]

\* The proof payloads and their SHA-256 digests.
PayloadA == "eyJ0eXAiOiJKV1QiLCJhbGciOiJIUzI1NiJ9..."

PayloadB == "eyJhbGciOiJFZERTQSJ9..."

DigestTable == (PayloadA :> "sha256:abc") @@ (PayloadB :> "sha256:def")

sha256(data) == DigestTable[data]

\* Raw expiry_date values a proof reveals: none, a calendar date, a value
\* in another format, and a value of the right format that is no date.
CalendarDate == "2026-01-15"

SlashDate == "01/15/2026"

NoSuchDate == "2026-13-45"

\* /^\d{4}-\d{2}-\d{2}$/ on the raw values above.
MatchesDateRegex(raw) == raw \in {CalendarDate, NoSuchDate}

\* new Date(`${raw}T23:59:59.999Z`).toISOString(); it throws a RangeError on
\* Invalid Date.
EndOfDayThrows(raw) == raw # CalendarDate

\* A proof record: the payload of its first attachment, and the raw values
\* of its revealed attributes; "" where any step of the path is missing.
ProofRecord(base64, expiryRaw, screenNameRaw) ==
    [base64 |-> base64, expiryRaw |-> expiryRaw, screenNameRaw |-> screenNameRaw]

extractExpiryDateFromProof(proofRecord) ==
    IF ~Truthy(proofRecord.expiryRaw) THEN ""
    ELSE IF ~MatchesDateRegex(proofRecord.expiryRaw) THEN ""
    ELSE IF EndOfDayThrows(proofRecord.expiryRaw) THEN ""
    ELSE EndOfDayIso

\* Without the fallback of one year for the age category.
getExpirationDateNoFallback(credentialType, proofRecord) ==
    IF credentialType = "age" THEN extractExpiryDateFromProof(proofRecord)
    ELSE IF credentialType = "account" THEN OneYearLaterIso
    ELSE ""

getExpirationDate(credentialType, proofRecord) ==
    IF credentialType = "age"
    THEN IF Truthy(extractExpiryDateFromProof(proofRecord))
         THEN extractExpiryDateFromProof(proofRecord)
         ELSE OneYearLaterIso
    ELSE IF credentialType = "account" THEN OneYearLaterIso
    ELSE ""

extractScreenNameFromProof(proofRecord) == proofRecord.screenNameRaw

\* The URL of the proof record at the verifier, for a presentation exchange.
CredentialUri(presExId) ==
    <<"https:", "/", "/", "verifier-server.asml.berkmancenter.org", "/",
      "present-proof-2.0", "/", "records", "/", presExId>>

\* sessionData.currentAccount: undefined, or an account.
NoAccount == [present |-> FALSE, did |-> "", handle |-> ""]

Account(did, handle) == [present |-> TRUE, did |-> did, handle |-> handle]

\* The handle is not checked.
ValidationErrorNoHandleCheck(params, sessionData) ==
    IF ~Truthy(sessionData.currentAccount.did)
    THEN "No authenticated user found"
    ELSE IF ~Truthy(params.proofRecord.base64)
    THEN "No cryptographic proof found in the verification record"
    ELSE IF ~SupportedType(params.credentialType)
    THEN "Unsupported verification type"
    ELSE ""

\* The first check that fails, as the message of the Error thrown; "" when
\* every check passes.
ValidationError(params, sessionData) ==
    IF ~Truthy(sessionData.currentAccount.did)
    THEN "No authenticated user found"
    ELSE IF ~Truthy(sessionData.currentAccount.handle)
    THEN "User handle not available"
    ELSE IF ~Truthy(params.proofRecord.base64)
    THEN "No cryptographic proof found in the verification record"
    ELSE IF ~SupportedType(params.credentialType)
    THEN "Unsupported verification type"
    ELSE ""

\* The record as it is built before the store is called.
BuildRecord(params, sessionData) ==
    [NoValue EXCEPT
        !.handle = sessionData.currentAccount.handle,
        !.displayName = sessionData.displayName,
        !.subject = sessionData.currentAccount.did,
        !.assertion = getVerificationConfig(params.credentialType).assertion,
        !.createdAt = NowIso,
        !.credential = StoreCredential(
            CredentialUri(params.presExId),
            sha256(params.proofRecord.base64),
            ArrayOf(getVerificationConfig(params.credentialType).types),
            getVerificationConfig(params.credentialType).purposes,
            getExpirationDate(params.credentialType, params.proofRecord),
            IF params.credentialType = "account"
            THEN extractScreenNameFromProof(params.proofRecord) ELSE "")]

\* The request createVerificationRecord hands to createRecord.
CreateRecordCall(params, sessionData) ==
    [op |-> "createRecord", repo |-> sessionData.agentSessionDid,
     collection |-> Collection, record |-> BuildRecord(params, sessionData)]


-----------------------------------------------------------------------------
(* The store's answers.  A response is the object itself ("direct"), the   *)
(* object under a data field ("wrapped"), or undefined; a call that fails  *)
(* rejects.                                                                *)

Resolved(value) == [state |-> "resolved", value |-> value]

Rejected(message) == [state |-> "rejected", message |-> message]

NoReply == [ok |-> FALSE, shape |-> "pending"]

Failure == [ok |-> FALSE, shape |-> "rejected"]

UndefinedResponse == [ok |-> TRUE, shape |-> "undefined"]

Commit == [cid |-> "bafyrei456", rev |-> "3jqfcqzm2sq2m"]

\* What createRecord answers for a write into repo.
CreateReplies(repo) ==
    {[ok |-> TRUE, shape |-> sh, uri |-> AtUri(repo, k), cid |-> "bafyrei123",
      commit |-> c] : sh \in {"direct", "wrapped"}, k \in StoreRkeys,
                      c \in {Commit, NoCommit}}
    \cup {UndefinedResponse, Failure}

\* response?.uri || response?.data?.uri, and the same for cid and commit.
ResponseUri(reply) == IF reply.shape = "undefined" THEN <<>> ELSE reply.uri

ResponseCid(reply) == IF reply.shape = "undefined" THEN "" ELSE reply.cid

ResponseCommit(reply) ==
    IF reply.shape = "undefined" THEN NoCommit ELSE reply.commit

\* Only the direct response is read.
AttachMetadataDirectOnly(record, reply) ==
    IF reply.shape = "direct"
    THEN [record EXCEPT !.uri = reply.uri, !.cid = reply.cid,
                        !.rkey = Pop(Split(reply.uri)),
                        !.commit = reply.commit]
    ELSE record

\* recordWithMetadata: the record with the store's uri, cid and commit, and
\* the rkey cut from the uri.
AttachMetadata(record, reply) ==
    [record EXCEPT
        !.uri = ResponseUri(reply),
        !.cid = ResponseCid(reply),
        !.rkey = IF TruthyUri(ResponseUri(reply))
                 THEN Pop(Split(ResponseUri(reply))) ELSE "",
        !.commit = ResponseCommit(reply)]

\* The catch block of createVerificationRecord.
CreateFailureMessage == "Failed to create verification record"

\* Values stored in the user's collection: two records as they are issued,
\* an older record that carries an rkey field of its own, and an entry
\* without a value.
StandardSession ==
    [currentAccount |-> Account(Owner, "alice.bsky.social"),
     displayName |-> "Alice Johnson", agentSessionDid |-> Owner]

StandardParams(type) ==
    [presExId |-> "test-pres-123",
     proofRecord |-> ProofRecord(PayloadA, "", ""), credentialType |-> type]

StoredValues ==
    {BuildRecord(StandardParams("age"), StandardSession),
     BuildRecord(StandardParams("account"), StandardSession),
     [BuildRecord(StandardParams("age"), StandardSession) EXCEPT
        !.createdAt = OlderNoMillis, !.rkey = "self-assigned"],
     NoValue}

\* The uri and cid of an entry: two well-formed, one whose uri ends in the
\* separator, one without uri and cid.
Envelopes ==
    {[uri |-> AtUri(Owner, "abc123"), cid |-> "bafyrei123"],
     [uri |-> AtUri(Owner, "def456"), cid |-> "bafyrei789"],
     [uri |-> <<"at:", "/", "/", Owner, "/", Collection, "/">>,
      cid |-> "bafyrei123"],
     [uri |-> <<>>, cid |-> ""]}

Entries ==
    {[uri |-> e.uri, cid |-> e.cid, value |-> v] : e \in Envelopes, v \in StoredValues}

EntryLists == UNION {[1..n -> Entries] : n \in 0..MaxEntries}

\* What listRecords answers; a response without a records field has no
\* records.
ListReplies ==
    {[ok |-> TRUE, shape |-> sh, records |-> es] :
        sh \in {"direct", "wrapped"}, es \in EntryLists}
    \cup {UndefinedResponse, Failure}

ResponseRecords(reply) ==
    IF reply.shape = "undefined" THEN <<>> ELSE reply.records

\* The rkey field of the stored value is kept.
ListedRecordKeepsValueRkey(entry) ==
    [entry.value EXCEPT !.uri = entry.uri, !.cid = entry.cid]

\* The callback of the map in listVerificationRecords.
ListedRecord(entry) ==
    [entry.value EXCEPT
        !.uri = entry.uri,
        !.cid = entry.cid,
        !.rkey = IF TruthyUri(entry.uri) THEN Pop(Split(entry.uri)) ELSE ""]

MapListed(entries) == [i \in 1..Len(entries) |-> ListedRecord(entries[i])]

\* The failure is thrown on to the caller.
ListOnFailureRethrows == Rejected("Network error")

\* The catch block of listVerificationRecords.
ListOnFailure == Resolved(<<>>)

\* What getRecord answers.
GetReplies ==
    {[ok |-> TRUE, shape |-> sh, record |-> e] :
        sh \in {"direct", "wrapped"}, e \in Entries}
    \cup {UndefinedResponse, Failure}

\* The record getVerificationRecord returns; reading a field of an
\* undefined response throws.
GetThrows(reply) == reply.shape = "undefined"

GotRecord(reply, rkey) ==
    [reply.record.value EXCEPT
        !.uri = reply.record.uri, !.cid = reply.record.cid, !.rkey = rkey]

\* The catch block of getVerificationRecord: null.
GetOnFailure == Resolved(<<>>)


-----------------------------------------------------------------------------
(* One operation on the store per behaviour.  An operation runs up to its  *)
(* await of the store in one step and from the store's answer to its       *)
(* return in another.                                                      *)

\* Retries of a failed queryFn (useQuery's retry option).
Retry == 2

Sessions ==
    {[currentAccount |-> a, displayName |-> "Alice Johnson", agentSessionDid |-> d] :
        a \in {NoAccount, Account("", "alice.bsky.social"), Account(Owner, ""),
               Account(Owner, "alice.bsky.social")},
        d \in {"", Owner, OtherDid}}

ProofRecords ==
    {ProofRecord(b, e, n) :
        b \in {"", PayloadA, PayloadB},
        e \in {"", CalendarDate, SlashDate, NoSuchDate},
        n \in {"", "alice_x"}}

CreateCalls ==
    {[name |-> "create",
      params |-> [presExId |-> "test-pres-123", proofRecord |-> pr,
                  credentialType |-> t],
      sessionData |-> sd] :
        pr \in ProofRecords, t \in VerificationTypes \cup {"other"}, sd \in Sessions}

ListCalls == {[name |-> "list", userDid |-> Owner]}

GetCalls == {[name |-> "get", userDid |-> Owner, rkey |-> k] : k \in StoreRkeys}

\* The records query of a session with or without a current account.
QueryCalls ==
    {[name |-> "query", currentAccount |-> a] :
        a \in {NoAccount, Account(Owner, "alice.bsky.social")}}

Calls == CreateCalls \cup ListCalls \cup GetCalls \cup QueryCalls

InitStore ==
    /\ call \in Calls
    /\ step = "start"
    /\ storeCalls = <<>>
    /\ outcome = Pending
    /\ query = QueryPending
    /\ records = <<>>
    /\ pos = FirstIndex
    /\ byType = EmptyAccumulator
    /\ result = NoResult
    /\ pc = "idle"
    /\ FirstCall
    /\ NoUi

\* The last call made to the store, and the log with its answer filled in.
LastCall == storeCalls[Len(storeCalls)]

Answered(reply) ==
    [storeCalls EXCEPT ![Len(storeCalls)] = [@ EXCEPT !.reply = reply]]

\* createVerificationRecord from its entry to the await of createRecord.
CreateStart ==
    /\ call.name = "create"
    /\ step = "start"
    /\ IF ValidationError(call.params, call.sessionData) # ""
       THEN /\ outcome' = Rejected(ValidationError(call.params, call.sessionData))
            /\ step' = "settled"
            /\ UNCHANGED storeCalls
       ELSE /\ storeCalls' = Append(storeCalls,
                [request |-> CreateRecordCall(call.params, call.sessionData),
                 reply |-> NoReply])
            /\ step' = "awaitStore"
            /\ UNCHANGED outcome
    /\ UNCHANGED <<call, query, reducerVars, callVars, uiVars>>

\* createVerificationRecord from the store's answer to its return or throw.
CreateResume ==
    /\ call.name = "create"
    /\ step = "awaitStore"
    /\ \E reply \in CreateReplies(LastCall.request.repo) :
        /\ storeCalls' = Answered(reply)
        /\ outcome' = IF reply.ok
                      THEN Resolved(<<AttachMetadata(LastCall.request.record, reply)>>)
                      ELSE Rejected(CreateFailureMessage)
    /\ step' = "settled"
    /\ UNCHANGED <<call, query, reducerVars, callVars, uiVars>>

\* listVerificationRecords up to the await of listRecords, called directly
\* or by the queryFn of an enabled records query.
ListStart ==
    /\ step = "start"
    /\ \/ call.name = "list"
       \/ call.name = "query" /\ Truthy(call.currentAccount.did)
    /\ storeCalls' = Append(storeCalls,
            [request |-> [op |-> "listRecords",
                          repo |-> IF call.name = "list" THEN call.userDid
                                   ELSE call.currentAccount.did,
                          collection |-> Collection],
             reply |-> NoReply])
    /\ step' = "awaitStore"
    /\ UNCHANGED <<call, outcome, query, reducerVars, callVars, uiVars>>

\* The entries of the records this flow has written into repo.
WrittenEntries(repo) ==
    {[uri |-> ResponseUri(storeCalls[i].reply),
      cid |-> ResponseCid(storeCalls[i].reply),
      value |-> storeCalls[i].request.record] :
        i \in {i \in 1..Len(storeCalls) :
                    /\ storeCalls[i].request.op = "createRecord"
                    /\ storeCalls[i].request.repo = repo
                    /\ storeCalls[i].reply.ok
                    /\ storeCalls[i].reply.shape # "undefined"}}

\* An older age record of the same repository.
OlderEntry ==
    [uri |-> AtUri(Owner, "older1"), cid |-> "bafyrei789",
     value |-> [BuildRecord(StandardParams("age"), StandardSession) EXCEPT
                    !.createdAt = OlderNoMillis]]

\* What listRecords answers once the flow has written a record: the
\* written record alone, or after or before an older one.
ListRepliesAfterWrite(repo) ==
    {[ok |-> TRUE, shape |-> sh, records |-> es] :
        sh \in {"direct", "wrapped"},
        es \in UNION {{<<e>>, <<OlderEntry, e>>, <<e, OlderEntry>>} :
                        e \in WrittenEntries(repo)}}
    \cup {UndefinedResponse, Failure}

\* The flow has issued a record before it lists.
AfterWrite == "credentialType" \in DOMAIN call

\* listVerificationRecords from the store's answer to its return.
ListResume ==
    /\ call.name \in {"list", "query"}
    /\ step = "awaitStore"
    /\ \E reply \in IF AfterWrite THEN ListRepliesAfterWrite(LastCall.request.repo)
                     ELSE ListReplies :
        /\ storeCalls' = Answered(reply)
        /\ outcome' = IF reply.ok
                      THEN Resolved(MapListed(ResponseRecords(reply)))
                      ELSE ListOnFailure
    /\ step' = IF call.name = "list" THEN "settled" ELSE "listSettled"
    /\ UNCHANGED <<call, query, reducerVars, callVars, uiVars>>

\* getVerificationRecord up to the await of getRecord.
GetStart ==
    /\ call.name = "get"
    /\ step = "start"
    /\ storeCalls' = Append(storeCalls,
            [request |-> [op |-> "getRecord", repo |-> call.userDid,
                          collection |-> Collection, rkey |-> call.rkey],
             reply |-> NoReply])
    /\ step' = "awaitStore"
    /\ UNCHANGED <<call, outcome, query, reducerVars, callVars, uiVars>>

\* getVerificationRecord from the store's answer to its return.
GetResume ==
    /\ call.name = "get"
    /\ step = "awaitStore"
    /\ \E reply \in GetReplies :
        /\ storeCalls' = Answered(reply)
        /\ outcome' = IF reply.ok /\ ~GetThrows(reply)
                      THEN Resolved(<<GotRecord(reply, call.rkey)>>)
                      ELSE GetOnFailure
    /\ step' = "settled"
    /\ UNCHANGED <<call, query, reducerVars, callVars, uiVars>>

\* The records query without a current account: enabled is false, the
\* queryFn does not run and data stays undefined.
QueryDisabled ==
    /\ call.name = "query"
    /\ step = "start"
    /\ ~Truthy(call.currentAccount.did)
    /\ step' = "settled"
    /\ UNCHANGED <<call, storeCalls, outcome, query, reducerVars, callVars, uiVars>>

\* The queryFn after its await of listVerificationRecords: it returns the
\* records, or throws the error on; useQuery runs a failed queryFn again
\* until Retry retries are used up.
QueryResume ==
    /\ call.name = "query"
    /\ step = "listSettled"
    /\ IF outcome.state = "resolved"
       THEN /\ query' = [query EXCEPT !.status = "success",
                                      !.data = <<outcome.value>>]
            /\ step' = "settled"
       ELSE /\ query' = [query EXCEPT
                            !.failureCount = @ + 1,
                            !.status = IF query.failureCount < Retry
                                       THEN "pending" ELSE "error"]
            /\ step' = IF query.failureCount < Retry THEN "start" ELSE "settled"
    /\ UNCHANGED <<call, storeCalls, outcome, reducerVars, callVars, uiVars>>

\* useVerificationStatus renders on the settled query: records is the
\* query's data, or [] while data is undefined, and processRecords is
\* called on it.
Render ==
    /\ call.name = "query"
    /\ step = "settled"
    /\ pc = "idle"
    /\ records' = IF query.data = <<>> THEN <<>> ELSE query.data[1]
    /\ pos' = FirstIndex
    /\ byType' = EmptyAccumulator
    /\ result' = NoResult
    /\ pc' = "reduce"
    /\ UNCHANGED <<callVars, storeVars, uiVars>>

\* The Verify screen after createVerificationRecord has resolved: it
\* invalidates the records query of the current account, which fetches the
\* records again.
InvalidateRecords ==
    /\ call.name = "create"
    /\ step = "settled"
    /\ outcome.state = "resolved"
    /\ Truthy(call.sessionData.currentAccount.did)
    /\ call' = [name |-> "query",
                currentAccount |-> call.sessionData.currentAccount,
                credentialType |-> call.params.credentialType]
    /\ step' = "start"
    /\ outcome' = Pending
    /\ query' = QueryPending
    /\ UNCHANGED <<storeCalls, reducerVars, callVars, uiVars>>

NextStore ==
    \/ CreateStart \/ CreateResume \/ InvalidateRecords
    \/ ListStart \/ ListResume
    \/ GetStart \/ GetResume
    \/ QueryDisabled \/ QueryResume \/ Render
    \/ ReduceStep \/ Return

\* The operations of the store boundary, and the reduction of what the
\* records query delivers.
SpecStore == InitStore /\ [][NextStore]_vars


-----------------------------------------------------------------------------
(* Claims about the store boundary.                                        *)

\* The operation has returned or thrown.
Settled == step = "settled"

\* The store has rejected the last call made to it.
StoreRejected == storeCalls # <<>> /\ LastCall.reply = Failure

\* The store has answered the last call made to it.
StoreAnswered == storeCalls # <<>> /\ LastCall.reply.ok

\* C15: when the store rejects the listing of the records query, the query
\* does not succeed (it ends in the error state) and processRecords is not
\* run on a substitute empty list.
TransportFailureSurfaced ==
    (call.name = "query" /\ StoreRejected) =>
        /\ query.status # "success"
        /\ Settled => query.status = "error"
        /\ pc = "idle"


\* The operation under way is a read of the store.
ListUnderWay == call.name \in {"list", "query"}

GetUnderWay == call.name = "get"

\* C16: the reads of the store fail soft: neither listVerificationRecords
\* nor getVerificationRecord ever rejects, and once the store has rejected
\* the call the first has resolved to the empty list and the second to null.
ReadsFailSoft ==
    /\ (ListUnderWay \/ GetUnderWay) => outcome.state # "rejected"
    /\ (ListUnderWay /\ StoreRejected) =>
            outcome = [state |-> "resolved", value |-> <<>>]
    /\ (GetUnderWay /\ StoreRejected) =>
            outcome = [state |-> "resolved", value |-> <<>>]

\* The store has rejected a listing, and the listing has returned.
ReadsFailSoftWitness ==
    call.name = "list" /\ StoreRejected /\ Settled /\ outcome.state = "resolved"


\* The last path segment of a URI: what follows its last separator, and
\* the whole URI when it has none.
LastSeparator(uri) ==
    LET seps == {i \in 1..Len(uri) : uri[i] = "/"}
    IN  IF seps = {} THEN 0 ELSE CHOOSE i \in seps : \A j \in seps : j <= i

LastSegment(uri) ==
    IF LastSeparator(uri) = Len(uri) THEN "" ELSE uri[LastSeparator(uri) + 1]

\* The fields of a stored value that are not storage metadata.
ValueFields ==
    {"handle", "displayName", "subject", "assertion", "createdAt", "credential",
     "commit"}

\* The store has answered the listing with a list of entries.
ListAnswered ==
    /\ ListUnderWay
    /\ StoreAnswered
    /\ LastCall.request.op = "listRecords"
    /\ LastCall.reply.shape \in {"direct", "wrapped"}

\* C17: listVerificationRecords returns one record per entry of the
\* store's response, in the store's order: the record at position i has the
\* value fields of entry i, the uri and cid of its envelope, and as rkey the
\* last path segment of the entry's URI.
ListMapsEntries ==
    ListAnswered =>
        /\ outcome.state = "resolved"
        /\ Len(outcome.value) = Len(LastCall.reply.records)
        /\ \A i \in 1..Len(LastCall.reply.records) :
            LET entry == LastCall.reply.records[i]
                listed == outcome.value[i]
            IN  /\ \A f \in ValueFields : listed[f] = entry.value[f]
                /\ listed.uri = entry.uri
                /\ listed.cid = entry.cid
                /\ entry.uri # <<>> => listed.rkey = LastSegment(entry.uri)

\* A listing of two entries with different record keys has returned; the
\* stored value of the first carries an rkey field of its own.
ListMapsEntriesWitness ==
    /\ ListAnswered
    /\ Settled
    /\ Len(LastCall.reply.records) = 2
    /\ LastCall.reply.records[1].uri = AtUri(Owner, "abc123")
    /\ LastCall.reply.records[1].value.rkey = "self-assigned"
    /\ LastCall.reply.records[2].uri = AtUri(Owner, "def456")
    /\ outcome.value[1].rkey = "abc123"
    /\ outcome.value[2].rkey = "def456"


\* The store has answered the write of createVerificationRecord with a
\* response, direct or data-wrapped.
WriteAnswered ==
    /\ call.name = "create"
    /\ StoreAnswered
    /\ LastCall.reply.shape \in {"direct", "wrapped"}

\* C18: on a successful write createVerificationRecord has called
\* createRecord exactly once and resolves to the record it wrote, with the
\* uri, cid and commit of the store's response attached and as rkey the
\* last path segment of that uri, for a direct and for a data-wrapped
\* response.
CreateReturnsWrittenRecord ==
    /\ call.name = "create" => Len(storeCalls) <= 1
    /\ WriteAnswered =>
        /\ Len(storeCalls) = 1
        /\ LastCall.request.op = "createRecord"
        /\ outcome.state = "resolved"
        /\ Len(outcome.value) = 1
        /\ \A f \in ValueFields \ {"commit"} :
                outcome.value[1][f] = LastCall.request.record[f]
        /\ outcome.value[1].uri = LastCall.reply.uri
        /\ outcome.value[1].cid = LastCall.reply.cid
        /\ outcome.value[1].commit = LastCall.reply.commit
        /\ outcome.value[1].rkey = LastSegment(LastCall.reply.uri)

\* A write answered with a data-wrapped response has returned its record.
CreateReturnsWrittenRecordWitness ==
    /\ WriteAnswered
    /\ Settled
    /\ LastCall.reply.shape = "wrapped"
    /\ outcome.value[1].rkey = "def456"
    /\ outcome.value[1].subject = Owner

\* C19: every record createVerificationRecord writes has as subject the
\* owner of the repository it is written into, whatever current account
\* and agent session the caller passes.
SubjectIsRepositoryOwner ==
    \A i \in 1..Len(storeCalls) :
        storeCalls[i].request.op = "createRecord" =>
            storeCalls[i].request.record.subject = storeCalls[i].request.repo

\* The session lacks the account identifier or the handle, or the proof
\* record has no payload.
MissingInput ==
    \/ call.sessionData.currentAccount.did = ""
    \/ call.sessionData.currentAccount.handle = ""
    \/ call.params.proofRecord.base64 = ""

\* C20: createVerificationRecord rejects without calling createRecord when
\* the account identifier, the handle or the proof payload is missing, and
\* it rejects, yielding no record, when the store's createRecord fails.
CreateRejectsWithoutWriting ==
    call.name = "create" =>
        /\ MissingInput =>
            /\ storeCalls = <<>>
            /\ step # "awaitStore"
            /\ Settled => outcome.state = "rejected"
        /\ StoreRejected =>
            /\ outcome.state = "rejected"
            /\ "value" \notin DOMAIN outcome

\* A call of a session with an identifier and without a handle has been
\* rejected.
CreateRejectsWithoutWritingWitness ==
    /\ call.name = "create"
    /\ Settled
    /\ call.sessionData.currentAccount.did = Owner
    /\ call.sessionData.currentAccount.handle = ""
    /\ call.params.proofRecord.base64 = PayloadA
    /\ outcome.state = "rejected"


-----------------------------------------------------------------------------
(* Claims about the accessors of the status map.                           *)

\* The accessors have been read on the map the call returned.
Viewed == Done /\ view # NoView

\* The non-null verifiedAt values of the returned map.
NonNullDates == {result[c].verifiedAt : c \in {c \in VerificationTypes :
                                                result[c].verifiedAt.kind = "date"}}

ValidInstants == {d.time : d \in {d \in NonNullDates : ~d.nan}}

MaxInstant == CHOOSE t \in ValidInstants : \A u \in ValidInstants : u <= t

StatsCountVerifiedCategories ==
    Viewed =>
        LET stats == view[1].stats
            listed == {stats.verifiedTypes[i] : i \in 1..Len(stats.verifiedTypes)} IN
        /\ listed = {c \in VerificationTypes : result[c].verified}
        /\ Len(stats.verifiedTypes) = Cardinality(listed)
        /\ Len(stats.verifiedTypes) = 2 => stats.verifiedTypes = <<"age", "account">>
        /\ stats.verificationCount = Len(stats.verifiedTypes)
        /\ stats.hasAnyVerification <=> stats.verificationCount > 0
        /\ ("age" \in listed) <=> view[1].isAgeVerified
        /\ ("account" \in listed) <=> view[1].isAccountVerified

\* Both categories are verified and the statistics have been read.
StatsCountVerifiedCategoriesWitness ==
    /\ Viewed
    /\ result["age"].verified
    /\ result["account"].verified
    /\ view[1].stats.verificationCount = 2


-----------------------------------------------------------------------------
(* Claims about single steps of the reduction.                             *)

\* The callback is about to be invoked on a valid record whose createdAt
\* does not parse.
UnparseableCandidate ==
    /\ pc = "reduce"
    /\ pos <= Len(records)
    /\ Valid(records[pos])
    /\ ~Parseable(records[pos].createdAt)

\* C28: a valid record whose createdAt is unparseable never replaces a
\* current winner whose createdAt is parseable, at whatever position of the
\* input it appears.
UnparseableNeverDisplaces ==
    [][UnparseableCandidate =>
        \A c \in DOMAIN byType :
            Parseable(byType[c].record.createdAt) =>
                c \in DOMAIN byType' /\ byType'[c] = byType[c]]_vars

\* The callback has just run on a valid age record with an unparseable
\* createdAt, at the third position, while an age winner with a parseable
\* createdAt was in place.
UnparseableNeverDisplacesWitness ==
    /\ pc = "reduce"
    /\ pos = 4
    /\ Valid(records[3])
    /\ Category(records[3]) = "age"
    /\ ~Parseable(records[3].createdAt)
    /\ \E j \in 1..2 : /\ Valid(records[j])
                       /\ Category(records[j]) = "age"
                       /\ Parseable(records[j].createdAt)
                       /\ "age" \in DOMAIN byType
                       /\ byType["age"].record = records[j]


-----------------------------------------------------------------------------
(* Claims about the records that are issued.                               *)

\* createVerificationRecord has handed a record to the store.
Issued == call.name = "create" /\ storeCalls # <<>>

\* The raw expiry value is a calendar date in the form YYYY-MM-DD.
WellFormedExpiry(raw) == raw = CalendarDate

\* C26: every record issued for a known category carries a defined
\* expiration date: for age the end of the day the proof reveals when it
\* reveals a well-formed date and otherwise now plus one year, for account
\* always now plus one year.
IssuedRecordsExpire ==
    Issued =>
        LET expirationDate == LastCall.request.record.credential.expirationDate
            raw == call.params.proofRecord.expiryRaw IN
        /\ expirationDate # ""
        /\ Parseable(expirationDate)
        /\ call.params.credentialType = "age" =>
            IF WellFormedExpiry(raw)
            THEN expirationDate = "2026-01-15T23:59:59.999Z"
            ELSE Instant(expirationDate) = Instant(NowIso) + 366 * 86400
        /\ call.params.credentialType = "account" =>
            Instant(expirationDate) = Instant(NowIso) + 366 * 86400

\* An age record has been issued for a proof that reveals a well-formed
\* expiry date.
IssuedRecordsExpireWitness ==
    /\ Issued
    /\ call.params.credentialType = "age"
    /\ call.params.proofRecord.expiryRaw = CalendarDate
    /\ LastCall.request.record.credential.expirationDate = EndOfDayIso


\* The record the flow has written is among the records being reduced.
WrittenPositions ==
    {j \in 1..Len(records) :
        /\ storeCalls[1].request.op = "createRecord"
        /\ \A f \in ValueFields \ {"commit"} :
                records[j][f] = storeCalls[1].request.record[f]}

-----------------------------------------------------------------------------
(* usePolling and the two watchers built on it.  A commit is one render of *)
(* the component with the cleanup of the previous effects and the effects  *)
(* of this render; the array of final states is a new array in every       *)
(* render, so the polling effect runs in every commit.                     *)

\* Timer callbacks that fire in one behaviour.
MaxPolls == 2

\* Renders with changed inputs of a caller of usePolling.
MaxRenders == 3

\* The localState argument: null, or an object with the fields the callers
\* give it; a field that is not there is "".
NoLocalState == [present |-> FALSE, state |-> "", status |-> ""]

LocalState(state, status) == [present |-> TRUE, state |-> state, status |-> status]

\* serverConnection: the Connection the verifier answers, or undefined.
ConnectionLocalState(data) ==
    IF data = "" THEN NoLocalState ELSE LocalState(data, "")

\* proofRequest: the component's own copy {presExId, status, ...}, or null.
ProofLocalState(status) ==
    IF status = "" THEN NoLocalState ELSE LocalState("", status)

ConnectionFinalStates == <<"active">>

ProofFinalStates == <<"verified", "done">>

GenericFinalStates == <<"final">>

\* The condition of the polling effect.
shouldPoll(id, localState, finalStates) ==
    \/ localState.present /\ ~Includes(finalStates, localState.status)
    \/ Truthy(id) /\ ~localState.present

\* The cleanup leaves the timer running.
CleanupNoClear(t) == t

\* The cleanup of the polling effect: clearInterval on the timer the ref
\* holds, when it holds one.
Cleanup(t) ==
    IF t.ref # 0 THEN [t EXCEPT !.live = @ \ {t.ref}] ELSE t

\* The body of the polling effect: setInterval, kept in the ref.
Effect(t, id, localState, finalStates) ==
    IF shouldPoll(id, localState, finalStates)
    THEN [live |-> t.live \cup {t.started + 1}, ref |-> t.started + 1,
          started |-> t.started + 1]
    ELSE t

\* The states the verifier moves a connection and a proof exchange through.
ConnectionNext ==
    [invitation |-> {"request", "error"}, request |-> {"response", "error"},
     response |-> {"active", "error"}, active |-> {}, error |-> {}]

ProofNext ==
    ("request-sent" :> {"presentation-received", "abandoned"}) @@
    ("presentation-received" :> {"verified", "abandoned"}) @@
    ("verified" :> {"done"}) @@ ("done" :> {}) @@ ("abandoned" :> {})

GenericInputs ==
    {NoLocalState, LocalState("", "waiting"), LocalState("", "final")}

WatcherIds == {"", "id-1"}

\* The localState a watcher passes to usePolling in this render.
PassedLocalState ==
    IF watcher.kind = "connection" THEN ConnectionLocalState(remote.data)
    ELSE IF watcher.kind = "proof" THEN ProofLocalState(local)
    ELSE watcher.input

FinalStatesOf(kind) ==
    IF kind = "connection" THEN ConnectionFinalStates
    ELSE IF kind = "proof" THEN ProofFinalStates
    ELSE GenericFinalStates

\* A component that calls usePolling is about to be mounted.
InitPoll ==
    /\ \E k \in {"generic", "connection", "proof"}, i \in WatcherIds,
          in \in GenericInputs :
            watcher = [kind |-> k, phase |-> "unmounted", id |-> i, stale |-> FALSE,
                       input |-> IF k = "generic" THEN in ELSE NoLocalState,
                       passed |-> NoLocalState, fetchedFor |-> "", seen |-> "",
                       load |-> "none", renders |-> 0]
    /\ timers = NoTimers
    /\ remote = [NoRemote EXCEPT
                    !.state = IF watcher.kind = "connection" THEN "invitation"
                              ELSE IF watcher.kind = "proof" THEN "request-sent"
                              ELSE ""]
    /\ local = ""
    /\ verify = NoVerify
    /\ mirror = NoMirror
    /\ records = <<>>
    /\ pos = FirstIndex
    /\ byType = EmptyAccumulator
    /\ result = NoResult
    /\ pc = "idle"
    /\ FirstCall
    /\ NoStoreOperation

\* usePersistentProofRequest's effect on server data (lines 107-127) has
\* something to do in this commit: the data is new and verified or done.
UpdatesLocal ==
    /\ watcher.kind = "proof"
    /\ remote.data # watcher.seen
    /\ remote.data \in {"verified", "done"}

\* The status query starts fetching: it is enabled and its key is new.
StartsFetch ==
    /\ watcher.kind \in {"connection", "proof"}
    /\ Truthy(watcher.id)
    /\ watcher.fetchedFor # watcher.id

\* The proof watcher's load effect (lines 88-104) runs: first commit, or a
\* new presExId.
StartsLoad ==
    /\ watcher.kind = "proof"
    /\ watcher.phase = "unmounted" \/ watcher.fetchedFor # watcher.id

\* One commit: the cleanup of the last polling effect, then the effects of
\* this render in their order.
CommitRender ==
    /\ watcher.kind # "none"
    /\ \/ watcher.phase = "unmounted"
       \/ watcher.phase = "mounted" /\ watcher.stale
    /\ timers' = Effect(IF watcher.phase = "mounted" THEN Cleanup(timers) ELSE timers,
                        watcher.id, PassedLocalState, FinalStatesOf(watcher.kind))
    /\ local' = IF UpdatesLocal THEN remote.data ELSE local
    /\ remote' = IF StartsFetch THEN [remote EXCEPT !.inflight = TRUE] ELSE remote
    /\ watcher' = [watcher EXCEPT
                    !.phase = "mounted",
                    !.passed = PassedLocalState,
                    !.stale = UpdatesLocal,
                    !.seen = IF watcher.kind = "proof" THEN remote.data ELSE @,
                    !.fetchedFor = IF StartsFetch THEN watcher.id ELSE @,
                    !.load = IF StartsLoad THEN "pending" ELSE @]
    /\ UNCHANGED <<verify, mirror, reducerVars, callVars, storeVars>>

\* The caller renders again with other inputs.
Rerender ==
    /\ watcher.kind = "generic"
    /\ watcher.phase = "mounted"
    /\ watcher.renders < MaxRenders
    /\ \E i \in WatcherIds, in \in GenericInputs :
        watcher' = [watcher EXCEPT !.id = i, !.input = in, !.stale = TRUE,
                                   !.renders = @ + 1]
    /\ UNCHANGED <<timers, remote, local, verify, mirror, reducerVars, callVars,
                   storeVars>>

\* The screen learns the identifier of the connection or of the proof
\* exchange and passes it on.
SetId ==
    /\ watcher.kind \in {"connection", "proof"}
    /\ watcher.phase = "mounted"
    /\ watcher.id = ""
    /\ watcher' = [watcher EXCEPT !.id = "id-1", !.stale = TRUE]
    /\ UNCHANGED <<timers, remote, local, verify, mirror, reducerVars, callVars,
                   storeVars>>

\* A live timer fires: invalidateQueries, and the status is fetched again.
Tick ==
    /\ watcher.kind # "none"
    /\ timers.live # {}
    /\ remote.polls < MaxPolls
    /\ remote' = [remote EXCEPT !.polls = @ + 1, !.inflight = TRUE]
    /\ UNCHANGED <<watcher, timers, local, verify, mirror, reducerVars, callVars,
                   storeVars>>

\* A status fetch settles: new data when it succeeds, and a render of the
\* mounted component when the data has changed.
FetchDone ==
    /\ watcher.kind # "none"
    /\ remote.inflight
    /\ \E ok \in BOOLEAN :
        /\ remote' = [remote EXCEPT
                        !.inflight = FALSE,
                        !.data = IF ok THEN remote.state ELSE @]
        /\ watcher' = [watcher EXCEPT
                        !.stale = @ \/ (watcher.phase = "mounted" /\ ok
                                        /\ remote.state # remote.data)]
    /\ UNCHANGED <<timers, local, verify, mirror, reducerVars, callVars, storeVars>>

\* The verifier moves the connection or the proof exchange on.
VerifierAdvance ==
    /\ watcher.kind \in {"connection", "proof"}
    /\ \E next \in IF watcher.kind = "connection" THEN ConnectionNext[remote.state]
                   ELSE ProofNext[remote.state] :
        remote' = [remote EXCEPT !.state = next]
    /\ UNCHANGED <<watcher, timers, local, verify, mirror, reducerVars, callVars,
                   storeVars>>

\* proofRequestStorage.getItem settles: the stored copy, when there is one,
\* becomes the local copy; setLoading(false) renders in every case.
StorageLoaded ==
    /\ watcher.kind = "proof"
    /\ watcher.phase = "mounted"
    /\ watcher.load = "pending"
    /\ \E stored \in {"", "request-sent"} :
        local' = IF Truthy(stored) THEN stored ELSE local
    /\ watcher' = [watcher EXCEPT !.load = "done", !.stale = TRUE]
    /\ UNCHANGED <<timers, remote, verify, mirror, reducerVars, callVars, storeVars>>

\* The component is discarded: the cleanup of the last effect runs.
Unmount ==
    /\ watcher.kind # "none"
    /\ watcher.phase = "mounted"
    /\ timers' = Cleanup(timers)
    /\ watcher' = [watcher EXCEPT !.phase = "gone", !.stale = FALSE]
    /\ UNCHANGED <<remote, local, verify, mirror, reducerVars, callVars, storeVars>>

NextPoll ==
    \/ CommitRender \/ Rerender \/ SetId \/ Tick \/ FetchDone \/ VerifierAdvance
    \/ StorageLoaded \/ Unmount

\* One component with a usePolling instance, from mount to discard.
SpecPoll == InitPoll /\ [][NextPoll]_vars


-----------------------------------------------------------------------------
(* The Verify screen: one flow from the invitation to the attestation      *)
(* record.  credentialData is the state of useCredentialState; the refs    *)
(* are the six useRef flags; conn and proof are the states the two status  *)
(* queries have delivered to the component ("" while data is undefined).   *)

initialCredentialData ==
    [step |-> "qr", invitationUrl |-> "", connectionId |-> "", presExId |-> ""]

NoRefs ==
    [hasCreatedInvitation |-> FALSE, hasSentProofRequest |-> FALSE,
     hasCreatedPDSRecord |-> FALSE, hasTransitionedToProofRequest |-> FALSE,
     hasTransitionedToSuccess |-> FALSE, hasTransitionedToError |-> FALSE]

\* The states a status query can deliver after it has delivered s: the
\* verifier may have moved on by several states between two polls.
RECURSIVE After(_, _, _)
After(next, s, n) ==
    IF n = 0 THEN {}
    ELSE next[s] \cup UNION {After(next, t, n - 1) : t \in next[s]}

ConnectionAfter(s) ==
    IF s = "" THEN {"invitation"} \cup After(ConnectionNext, "invitation", 4)
    ELSE After(ConnectionNext, s, 4)

ProofAfter(s) ==
    IF s = "" THEN {"request-sent"} \cup After(ProofNext, "request-sent", 4)
    ELSE After(ProofNext, s, 4)

\* The guard takes any state of the exchange for success.
SucceedsNowAnyState(v) ==
    Truthy(v.proof) /\ ~v.refs.hasTransitionedToSuccess

\* Lines 156-160: the exchange is verified or done and the success
\* transition has not been made.
SucceedsNow(v) ==
    v.proof \in {"verified", "done"} /\ ~v.refs.hasTransitionedToSuccess

\* Lines 182-186: inside the success branch, the record has not been
\* created, the presentation-exchange id is known and there is server data.
CreatesRecord(v) ==
    /\ SucceedsNow(v)
    /\ ~v.refs.hasCreatedPDSRecord
    /\ Truthy(v.data.presExId)
    /\ Truthy(v.proof)

\* Lines 141-145.
ScansQr(v) ==
    /\ v.conn = "response"
    /\ v.data.step = "qr"
    /\ ~v.refs.hasTransitionedToProofRequest

\* Lines 227-230.
FailsNow(v) == v.proof = "abandoned" /\ ~v.refs.hasTransitionedToError

\* Lines 270-274.
SendsProofRequest(v) ==
    /\ v.conn = "active"
    /\ ~v.refs.hasSentProofRequest
    /\ Truthy(v.data.connectionId)

\* The step of the last updateData of one commit: the effects run in their
\* order on the credentialData of the render, and the last call wins.
StepAfterEffects(v) ==
    IF SendsProofRequest(v) THEN "proof-request"
    ELSE IF FailsNow(v) THEN "error"
    ELSE IF SucceedsNow(v) THEN "success"
    ELSE IF ScansQr(v) THEN "proof-request"
    ELSE v.data.step

\* A Verify screen is about to be mounted.
InitVerify ==
    /\ \E t \in VerificationTypes,
          sd \in {StandardSession, [StandardSession EXCEPT !.currentAccount = NoAccount]},
          b \in {"", PayloadA} :
            verify = [step |-> "unmounted", stale |-> FALSE,
                      data |-> initialCredentialData, refs |-> NoRefs,
                      conn |-> "", proof |-> "",
                      invitation |-> "none", proofMutation |-> "none",
                      sentFor |-> initialCredentialData,
                      write |-> "none", invalidations |-> 0, error |-> "",
                      renders |-> 0, credentialType |-> t, sessionData |-> sd,
                      proofRecord |-> ProofRecord(b, "", "")]
    /\ watcher = NoWatcher
    /\ timers = NoTimers
    /\ remote = NoRemote
    /\ local = ""
    /\ mirror = NoMirror
    /\ records = <<>>
    /\ pos = FirstIndex
    /\ byType = EmptyAccumulator
    /\ result = NoResult
    /\ pc = "idle"
    /\ FirstCall
    /\ NoStoreOperation

\* One commit of the screen: the effects of phases 1, 3 and 4 run on the
\* credentialData of this render.
VerifyCommit ==
    /\ verify.step \in {"unmounted", "mounted"}
    /\ verify.step = "unmounted" \/ verify.stale
    /\ verify' = [verify EXCEPT
            !.step = "mounted",
            !.stale = StepAfterEffects(verify) # verify.data.step,
            !.data = [@ EXCEPT !.step = StepAfterEffects(verify)],
            !.refs = [@ EXCEPT
                !.hasCreatedInvitation = TRUE,
                !.hasTransitionedToProofRequest = @ \/ ScansQr(verify),
                !.hasTransitionedToSuccess = @ \/ SucceedsNow(verify),
                !.hasCreatedPDSRecord = @ \/ CreatesRecord(verify),
                !.hasTransitionedToError = @ \/ FailsNow(verify),
                !.hasSentProofRequest = @ \/ SendsProofRequest(verify)],
            !.invitation = IF verify.refs.hasCreatedInvitation THEN @ ELSE "pending",
            !.proofMutation = IF SendsProofRequest(verify) THEN "pending" ELSE @,
            !.sentFor = IF SendsProofRequest(verify) THEN verify.data ELSE @,
            !.write = IF CreatesRecord(verify) THEN "called" ELSE @,
            !.error = IF FailsNow(verify) THEN "Rejected by the user" ELSE @]
    /\ IF CreatesRecord(verify)
       THEN /\ call' = [name |-> "create",
                        params |-> [presExId |-> verify.data.presExId,
                                    proofRecord |-> verify.proofRecord,
                                    credentialType |-> verify.credentialType],
                        sessionData |-> verify.sessionData]
            /\ step' = "start"
            /\ outcome' = Pending
       ELSE UNCHANGED <<call, step, outcome>>
    /\ UNCHANGED <<storeCalls, query, pollVars, mirror, reducerVars, callVars>>

\* The screen renders again: the session, the profile or the agent is a new
\* object, or a parent has rendered.
VerifyRerender ==
    /\ verify.step = "mounted"
    /\ ~verify.stale
    /\ verify.renders < MaxRenders
    /\ verify' = [verify EXCEPT !.stale = TRUE, !.renders = @ + 1]
    /\ UNCHANGED <<pollVars, mirror, reducerVars, callVars, storeVars>>

\* startCredentialFlow.mutateAsync settles (lines 93-114).
InvitationSettles ==
    /\ verify.step = "mounted"
    /\ verify.invitation = "pending"
    /\ \E ok \in BOOLEAN :
        verify' = [verify EXCEPT
            !.invitation = IF ok THEN "done" ELSE "failed",
            !.data = IF ok
                     THEN [step |-> "qr", invitationUrl |-> "https://invite/1",
                           connectionId |-> "conn-1", presExId |-> ""]
                     ELSE @,
            !.error = IF ok THEN ""
                      ELSE "Failed to generate connection invitation, please try again.",
            !.stale = TRUE]
    /\ UNCHANGED <<pollVars, mirror, reducerVars, callVars, storeVars>>

\* The connection query, enabled by a connectionId, delivers a new state.
ConnectionPolled ==
    /\ verify.step = "mounted"
    /\ Truthy(verify.data.connectionId)
    /\ \E s \in ConnectionAfter(verify.conn) :
        verify' = [verify EXCEPT !.conn = s, !.stale = TRUE]
    /\ UNCHANGED <<pollVars, mirror, reducerVars, callVars, storeVars>>

\* The proof mutation settles (lines 308-329): updateData with the fields
\* of the render that sent it and the presExId of the response.
ProofRequestSettles ==
    /\ verify.step = "mounted"
    /\ verify.proofMutation = "pending"
    /\ \E ok \in BOOLEAN :
        verify' = [verify EXCEPT
            !.proofMutation = IF ok THEN "done" ELSE "failed",
            !.data = IF ok
                     THEN [step |-> "proof-request",
                           invitationUrl |-> verify.sentFor.invitationUrl,
                           connectionId |-> verify.sentFor.connectionId,
                           presExId |-> "test-pres-123"]
                     ELSE @,
            !.error = IF ok THEN ""
                      ELSE "Failed to send proof request, please try again.",
            !.stale = TRUE]
    /\ UNCHANGED <<pollVars, mirror, reducerVars, callVars, storeVars>>

\* The proof query, enabled by a presExId, delivers a new state.
ProofPolled ==
    /\ verify.step = "mounted"
    /\ Truthy(verify.data.presExId)
    /\ \E s \in ProofAfter(verify.proof) :
        verify' = [verify EXCEPT !.proof = s, !.stale = TRUE]
    /\ UNCHANGED <<pollVars, mirror, reducerVars, callVars, storeVars>>

\* createVerificationRecord has resolved: the then callback invalidates the
\* owner's records and the profile's.
VerifyThen ==
    /\ verify.step = "mounted"
    /\ verify.write = "called"
    /\ call.name = "create"
    /\ step = "settled"
    /\ outcome.state = "resolved"
    /\ verify' = [verify EXCEPT !.write = "then", !.invalidations = @ + 1]
    /\ UNCHANGED <<pollVars, mirror, reducerVars, callVars, storeVars>>

\* createVerificationRecord has rejected: the catch callback logs.
VerifyCatch ==
    /\ verify.step = "mounted"
    /\ verify.write = "called"
    /\ call.name = "create"
    /\ step = "settled"
    /\ outcome.state = "rejected"
    /\ verify' = [verify EXCEPT !.write = "caught"]
    /\ UNCHANGED <<pollVars, mirror, reducerVars, callVars, storeVars>>

NextVerify ==
    \/ VerifyCommit \/ VerifyRerender
    \/ InvitationSettles \/ ConnectionPolled
    \/ ProofRequestSettles \/ ProofPolled
    \/ CreateStart \/ CreateResume
    \/ VerifyThen \/ VerifyCatch

\* One Verify flow and the write it makes to the repository store.
SpecVerify == InitVerify /\ [][NextVerify]_vars


-----------------------------------------------------------------------------
(* The local mirror: one CredentialStorage over AsyncStorage.  The text    *)
(* under the storage key is a JSON object, kept here as the sequence of    *)
(* its entries; a saveItem call is two awaits, and other calls run between *)
(* them.                                                                   *)

\* saveItem calls of one run.
MaxSaves == 2

MirrorKeys == {"pres-1", "pres-2"}

\* What saveProofRequestToStorage stores under a presExId.
MirrorData == {[presExId |-> k, status |-> st] :
                    k \in MirrorKeys, st \in {"request-sent", "verified"}}

\* AsyncStorage.getItem answers null: nothing stored under the storage key.
NoText == [present |-> FALSE, entries |-> <<>>]

\* existingData ? JSON.parse(existingData) : {}
ParseItems(text) == IF text.present THEN text.entries ELSE <<>>

\* JSON.stringify(items)
StringifyItems(items) == [present |-> TRUE, entries |-> items]

HasKey(items, key) == \E i \in DOMAIN items : items[i].key = key

\* items[key] = data: the entry is replaced where it stands, or added last.
SetKey(items, key, data) ==
    IF HasKey(items, key)
    THEN [i \in DOMAIN items |->
            IF items[i].key = key THEN [key |-> key, data |-> data] ELSE items[i]]
    ELSE Append(items, [key |-> key, data |-> data])

NoItem == [presExId |-> "", status |-> ""]

\* items[key] || null
ItemOf(items, key) ==
    IF HasKey(items, key)
    THEN (CHOOSE e \in {items[i] : i \in DOMAIN items} : e.key = key).data
    ELSE NoItem

\* getItem(key) on the text stored now.
getItem(key) == ItemOf(ParseItems(mirror.text), key)

\* Nothing stored yet, or one item stored by an earlier run.
InitMirror ==
    /\ \E text \in {NoText,
                    StringifyItems(<<[key |-> "pres-1",
                                      data |-> [presExId |-> "pres-1",
                                                status |-> "request-sent"]]>>)} :
        mirror = [text |-> text, calls |-> <<>>,
                  written |-> [k \in MirrorKeys |-> ItemOf(ParseItems(text), k)]]
    /\ watcher = NoWatcher
    /\ timers = NoTimers
    /\ remote = NoRemote
    /\ local = ""
    /\ verify = NoVerify
    /\ records = <<>>
    /\ pos = FirstIndex
    /\ byType = EmptyAccumulator
    /\ result = NoResult
    /\ pc = "idle"
    /\ FirstCall
    /\ NoStoreOperation

\* saveItem is called: it runs up to its first await.
SaveItemCall ==
    /\ "calls" \in DOMAIN mirror
    /\ Len(mirror.calls) < MaxSaves
    /\ \E d \in MirrorData :
        mirror' = [mirror EXCEPT
            !.calls = Append(@, [key |-> d.presExId, data |-> d, at |-> "getItem",
                                 items |-> <<>>])]
    /\ UNCHANGED <<pollVars, verify, reducerVars, callVars, storeVars>>

\* AsyncStorage.getItem settles for one call: the items are parsed and the
\* key is set, up to the second await; a rejection is logged.
SaveItemRead ==
    /\ "calls" \in DOMAIN mirror
    /\ \E i \in DOMAIN mirror.calls, ok \in BOOLEAN :
        /\ mirror.calls[i].at = "getItem"
        /\ mirror' = [mirror EXCEPT
            !.calls[i] = IF ok
                THEN [@ EXCEPT !.at = "setItem",
                               !.items = SetKey(ParseItems(mirror.text),
                                                mirror.calls[i].key,
                                                mirror.calls[i].data)]
                ELSE [@ EXCEPT !.at = "failed"]]
    /\ UNCHANGED <<pollVars, verify, reducerVars, callVars, storeVars>>

\* AsyncStorage.setItem settles for one call: the text is replaced.
SaveItemWrite ==
    /\ "calls" \in DOMAIN mirror
    /\ \E i \in DOMAIN mirror.calls, ok \in BOOLEAN :
        /\ mirror.calls[i].at = "setItem"
        /\ mirror' = IF ok
            THEN [mirror EXCEPT
                    !.text = StringifyItems(mirror.calls[i].items),
                    !.written[mirror.calls[i].key] = mirror.calls[i].data,
                    !.calls[i] = [@ EXCEPT !.at = "done"]]
            ELSE [mirror EXCEPT !.calls[i] = [@ EXCEPT !.at = "failed"]]
    /\ UNCHANGED <<pollVars, verify, reducerVars, callVars, storeVars>>

NextMirror == SaveItemCall \/ SaveItemRead \/ SaveItemWrite

\* saveItem calls on one CredentialStorage, in any interleaving.
SpecMirror == InitMirror /\ [][NextMirror]_vars


-----------------------------------------------------------------------------
(* Claims about polling.                                                   *)

\* The mounted component has rendered everything it knows.
Committed == watcher.phase = "mounted" /\ ~watcher.stale

\* C21: once the connection has been observed as active, no polling timer
\* of usePersistentConnection is running, and no timer fires any more.
ConnectionPollingStops ==
    (watcher.kind = "connection" /\ Committed /\ watcher.passed.state = "active")
        => timers.live = {}

\* The proof watcher has handled the server data it holds.
ProofObserved(states) ==
    /\ watcher.kind = "proof"
    /\ Committed
    /\ remote.data \in states
    /\ watcher.seen = remote.data

\* C22: once the proof exchange has been observed as verified or done, or
\* as abandoned, no polling timer of usePersistentProofRequest is running.
ProofPollingStops ==
    ProofObserved({"verified", "done", "abandoned"}) => timers.live = {}

\* C23: a usePolling instance has at most one live interval timer, every
\* timer it started has been cleared when the next one is started, and none
\* is live after the component is discarded.
NoOrphanedTimers ==
    /\ [](Cardinality(timers.live) <= 1)
    /\ [](watcher.kind # "none" /\ watcher.phase = "gone" => timers.live = {})
    /\ [][timers'.started > timers.started =>
            timers'.live = {timers'.started}]_vars

\* A caller has rendered with changed inputs, a second timer has been
\* started after the first, and the component has been discarded.
NoOrphanedTimersWitness ==
    /\ watcher.kind = "generic"
    /\ watcher.phase = "gone"
    /\ watcher.renders >= 2
    /\ timers.started >= 2
    /\ timers.live = {}


-----------------------------------------------------------------------------
(* Claims about the Verify flow.                                           *)

\* The writes the flow has made to the repository store.
RecordWrites ==
    {i \in DOMAIN storeCalls : storeCalls[i].request.op = "createRecord"}

\* The write of the flow has been answered by the store with success.
WriteSucceeded ==
    /\ RecordWrites # {}
    /\ \A i \in RecordWrites : storeCalls[i].reply.ok

\* C27: in one Verify flow the attestation record is written to the store
\* at most once, a write is only made when the exchange has been observed as
\* verified or done and the presentation-exchange id is known, and the
\* caches are only invalidated after the write has succeeded.
WritesOnceAfterVerified ==
    /\ [](verify # NoVerify => Cardinality(RecordWrites) <= 1)
    /\ [][(verify # NoVerify /\ Len(storeCalls') > Len(storeCalls)) =>
            /\ verify.proof \in {"verified", "done"}
            /\ Truthy(verify.data.presExId)
            /\ storeCalls'[Len(storeCalls')].request.record.credential.uri
                    = CredentialUri(verify.data.presExId)]_vars
    /\ [][(verify # NoVerify /\ verify'.invalidations > verify.invalidations) =>
            WriteSucceeded]_vars
    /\ [](verify # NoVerify /\ verify.invalidations > 0 => WriteSucceeded)

\* The flow has gone through re-renders, has written its record after the
\* exchange was observed as done, and has invalidated the caches.
WritesOnceAfterVerifiedWitness ==
    /\ verify # NoVerify
    /\ verify.renders >= 2
    /\ verify.proof = "done"
    /\ Cardinality(RecordWrites) = 1
    /\ WriteSucceeded
    /\ verify.invalidations = 1


-----------------------------------------------------------------------------
(* Claims about the local mirror.                                          *)

\* Every saveItem call made has completed, and none with an error.
AllSavesCompleted ==
    /\ "calls" \in DOMAIN mirror
    /\ mirror.calls # <<>>
    /\ \A i \in DOMAIN mirror.calls : mirror.calls[i].at = "done"

\* The keys saveItem was called with.
SavedKeys == {mirror.calls[i].key : i \in DOMAIN mirror.calls}

\* C30: when all saveItem calls have completed without error, getItem(k)
\* returns, for every key k that was saved, the value last written for k;
\* a concurrent saveItem under another key has not erased it.
NoLostUpdate ==
    AllSavesCompleted => \A k \in SavedKeys : getItem(k) = mirror.written[k]

====
